---- MODULE Spec2Model ----
(***************************************************************************)
(* Hybrid (human + AI) consultation sessions of SensoryX:                  *)
(* backend/app/services/photon_service.py, and the multi-agent diagnosis   *)
(* of backend/app/services/dedalus_orchestrator.py.                        *)
(*                                                                         *)
(* Specifications                                                          *)
(*   Spec            the session handlers, one action per handler          *)
(*   PolicySpec      should_escalate_to_human on bounded analyses          *)
(*   ConfidenceSpec  reviews whose confidence ranges over the accepted     *)
(*                   inputs                                                *)
(*   ConsensusSpec   check_consensus on bounded diagnoses                  *)
(*   DiagnosisSpec   one multi_agent_diagnosis run, one action per tool    *)
(*                   or model call                                         *)
(*   AsyncSpec       the event loop: handlers in flight together, each     *)
(*                   run up to its next suspending await                   *)
(*   LoopSpec        the event loop with start requests in flight too      *)
(*                                                                         *)
(* The session store hybrid_sessions is a module-level dict keyed by       *)
(* session_id.  Every handler is an "async def" whose awaits are on        *)
(* coroutines of the same file that never suspend, so under the single     *)
(* event loop each handler runs to completion: one action per handler.     *)
(*                                                                         *)
(* Representation                                                          *)
(*   - Python None is <<>> and a present value x is <<x>>.                 *)
(*   - Text that the code lower-cases or searches (diagnoses, patient      *)
(*     messages, escalation reasons) is a sequence of characters.          *)
(*   - Confidences and probabilities are integers in units of 1/10000      *)
(*     (0.70 is 7000), so that the 0.4/0.6 blend of two-decimal inputs is  *)
(*     exact.                                                              *)
(*   - Timestamps inside entries, created_at and updated_at are left out;  *)
(*     the clock is kept only where it decides behaviour: session_id.      *)
(***************************************************************************)
EXTENDS Integers, Sequences, FiniteSets, TLC

VARIABLES
    hybrid_sessions,   \* the session store: session_id -> HybridSession
    now,               \* the reading datetime.now() gave the last start call
    call,              \* the last call: its operation and what it was called on
    ret,               \* what the last call returned
    stage_trace,       \* the values session.stage took during the last call
    run,               \* the multi_agent_diagnosis run of the orchestrator
    tasks              \* the event loop: the handler coroutines in flight

vars == <<hybrid_sessions, now, call, ret, stage_trace, run, tasks>>

\* ------------------------------------------------------------------ bounds

MaxClock == 1      \* clock readings are 0..MaxClock
MaxStore == 4      \* the store holds at most MaxStore sessions and transcript entries together
MaxFlags == 1      \* red-flag lists of the policy inputs have 0..MaxFlags flags
MaxDiffs == 3      \* differential lists of the policy inputs have 0..MaxDiffs entries

\* ------------------------------------------------------------ Python values

None == <<>>
Some(x) == <<x>>
IsNone(v) == v = <<>>
The(v) == v[1]

\* dict.get(key, default)
Get(d, key, default) == IF key \in DOMAIN d THEN d[key] ELSE default

UpperCase == <<"A", "B", "C", "D", "E", "F", "G", "H", "I", "J", "K", "L", "M",
               "N", "O", "P", "Q", "R", "S", "T", "U", "V", "W", "X", "Y", "Z">>
LowerCase == <<"a", "b", "c", "d", "e", "f", "g", "h", "i", "j", "k", "l", "m",
               "n", "o", "p", "q", "r", "s", "t", "u", "v", "w", "x", "y", "z">>

\* str.lower() of one character
LowerChar(c) ==
    IF \E i \in 1..26 : UpperCase[i] = c
    THEN LowerCase[CHOOSE i \in 1..26 : UpperCase[i] = c]
    ELSE c

\* str.lower()
Lower(s) == [i \in 1..Len(s) |-> LowerChar(s[i])]

\* the operator "a in b" of two strings
In(a, b) ==
    \E k \in 0..(Len(b) - Len(a)) :
        \A i \in 1..Len(a) : b[k + i] = a[i]

\* ------------------------------------------------------------------- stages

AI_ANALYZING == "ai_analyzing"
HUMAN_REVIEW_PENDING == "human_review_pending"
HUMAN_REVIEWING == "human_reviewing"
CONSENSUS_REACHED == "consensus_reached"
DISAGREEMENT == "disagreement"
COMPLETED == "completed"

CollaborationStage ==
    {AI_ANALYZING, HUMAN_REVIEW_PENDING, HUMAN_REVIEWING,
     CONSENSUS_REACHED, DISAGREEMENT, COMPLETED}

\* ----------------------------------------------------------------- the text

TensionHeadache ==
    <<"T", "e", "n", "s", "i", "o", "n", " ", "H", "e", "a", "d", "a", "c", "h", "e">>
tension_headache ==
    <<"t", "e", "n", "s", "i", "o", "n", " ", "h", "e", "a", "d", "a", "c", "h", "e">>
Migraine == <<"M", "i", "g", "r", "a", "i", "n", "e">>
HowLongText == <<"H", "o", "w", " ", "l", "o", "n", "g", "?">>
PainText == <<"P", "a", "i", "n", " ", "w", "o", "r", "s", "e">>
kw_how_long == <<"h", "o", "w", " ", "l", "o", "n", "g">>
kw_serious == <<"s", "e", "r", "i", "o", "u", "s">>
kw_worried == <<"w", "o", "r", "r", "i", "e", "d">>
kw_cost == <<"c", "o", "s", "t">>
kw_pain == <<"p", "a", "i", "n">>
kw_worsening == <<"w", "o", "r", "s", "e", "n", "i", "n", "g">>
kw_second_opinion ==
    <<"s", "e", "c", "o", "n", "d", " ", "o", "p", "i", "n", "i", "o", "n">>

\* --------------------------------------------------------- the input sets

Urgencies == {"medium", "high"}
PatientData == "patient_data"
Symptoms == "symptoms"
DoctorId == "dr001"
DoctorName == "Dr. Sarah Johnson"

\* the review a HumanReviewRequest carries (routers/photon.py)
Review(diagnosis, confidence) ==
    [diagnosis |-> diagnosis, confidence |-> confidence,
     treatment_plan |-> "plan", notes |-> None, modifications |-> <<>>,
     follow_up_required |-> FALSE, next_steps |-> <<>>]

Reviews == {Review(tension_headache, 9000), Review(Migraine, 9000)}
Actors == {"patient", "human_doctor"}
Messages == {HowLongText}
Reasons == {PainText}

\* f"hybrid_{datetime.now().timestamp()}"
SessionId(t) == <<"hybrid_", t>>

SessionIds == {SessionId(t) : t \in 0..MaxClock}

\* ------------------------------------------------------------ HybridSession

HybridSession(session_id, patient_data) ==
    [session_id |-> session_id,
     patient_data |-> patient_data,
     stage |-> AI_ANALYZING,
     ai_analysis |-> None,
     human_review |-> None,
     final_recommendation |-> None,
     conversation_history |-> <<>>,
     confidence_scores |-> [ai |-> 0, human |-> 0, hybrid |-> 0]]

\* ---------------------------------------------------------------- helpers

get_ai_analysis(symptoms, patient_data, urgency) ==
    [symptoms |-> symptoms,
     primary_diagnosis |-> TensionHeadache,
     confidence |-> 7800,
     differential_diagnoses |->
        <<[condition |-> "Tension Headache", probability |-> 7800],
          [condition |-> "Migraine", probability |-> 1500],
          [condition |-> "Sinus Infection", probability |-> 700]>>,
     urgency_level |-> urgency,
     recommended_treatment |-> "Rest, hydration, OTC pain relief",
     red_flags |-> <<>>,
     escalation_reason |-> "Moderate confidence - human validation recommended",
     ai_agents_consulted |->
        <<"symptom_analyzer", "treatment_recommender", "risk_assessor">>]

\* len([d for d in diagnoses if d.get("probability", 0) > 0.20])
HighProbabilityCount(diagnoses) ==
    Cardinality({i \in 1..Len(diagnoses) :
                    Get(diagnoses[i], "probability", 0) > 2000})

\* the policy with the confidence test written <= instead of <
should_escalate_lowconf(ai_analysis, urgency) ==
    LET confidence == Get(ai_analysis, "confidence", 0)
        red_flags == Get(ai_analysis, "red_flags", <<>>)
        diagnoses == Get(ai_analysis, "differential_diagnoses", <<>>)
    IN  IF confidence <= 7000 THEN TRUE
        ELSE IF urgency \in {"high", "emergency"} THEN TRUE
        ELSE IF Len(red_flags) > 0 THEN TRUE
        ELSE IF HighProbabilityCount(diagnoses) > 2 THEN TRUE
        ELSE FALSE

should_escalate_to_human(ai_analysis, urgency) ==
    LET confidence == Get(ai_analysis, "confidence", 0)
        red_flags == Get(ai_analysis, "red_flags", <<>>)
        diagnoses == Get(ai_analysis, "differential_diagnoses", <<>>)
    IN  IF confidence < 7000 THEN TRUE
        ELSE IF urgency \in {"high", "emergency"} THEN TRUE
        ELSE IF Len(red_flags) > 0 THEN TRUE
        ELSE IF HighProbabilityCount(diagnoses) > 2 THEN TRUE
        ELSE FALSE

\* the comparison with only the AI diagnosis lower-cased
check_consensus_cased(ai_analysis, human_review) ==
    LET ai_diagnosis == Lower(Get(ai_analysis, "primary_diagnosis", <<>>))
        human_diagnosis == Get(human_review, "diagnosis", <<>>)
    IN  In(ai_diagnosis, human_diagnosis) \/ In(human_diagnosis, ai_diagnosis)

check_consensus(ai_analysis, human_review) ==
    LET ai_diagnosis == Lower(Get(ai_analysis, "primary_diagnosis", <<>>))
        human_diagnosis == Lower(Get(human_review, "diagnosis", <<>>))
    IN  In(ai_diagnosis, human_diagnosis) \/ In(human_diagnosis, ai_diagnosis)

\* the keyword branches of _ai_quick_response
ai_quick_response(patient_question, ai_analysis) ==
    LET question_lower == Lower(patient_question)
    IN  IF In(kw_how_long, question_lower)
        THEN <<"improvement within 2-3 days">>
        ELSE IF In(kw_serious, question_lower) \/ In(kw_worried, question_lower)
        THEN <<"no immediate red flags">>
        ELSE IF In(kw_cost, question_lower)
        THEN <<"costs vary">>
        ELSE <<"the AI assessment suggests: ",
               Get(ai_analysis, "primary_diagnosis", None)>>

determine_priority(reason, ai_analysis) ==
    LET reason_lower == Lower(reason)
        urgency == Get(ai_analysis, "urgency_level", "medium")
    IN  IF urgency \in {"high", "emergency"} THEN "urgent"
        ELSE IF In(kw_pain, reason_lower) \/ In(kw_worsening, reason_lower)
        THEN "high"
        ELSE IF In(kw_second_opinion, reason_lower) THEN "normal"
        ELSE "low"

match_doctor_for_case(symptoms, urgency, patient_data) ==
    [doctor_id |-> "dr001",
     name |-> "Dr. Sarah Johnson",
     specialty |-> "General Practitioner",
     availability |->
        IF urgency \in {"high", "emergency"}
        THEN "Available now" ELSE "Available in 15 min"]

\* round(x, 2) of a value in units of 1/10000: the nearest multiple of 100
Round2(x) == ((x + 50) \div 100) * 100

create_hybrid_recommendation(ai_analysis, human_review, patient_data) ==
    [diagnosis |->
        Get(human_review, "diagnosis", Get(ai_analysis, "primary_diagnosis", None)),
     confidence |->
        Round2((Get(ai_analysis, "confidence", 0) * 3
                + Get(human_review, "confidence", 9000) * 7) \div 10),
     treatment_plan |->
        Get(human_review, "treatment_plan",
            Get(ai_analysis, "recommended_treatment", None)),
     ai_insights |->
        [differential_diagnoses |-> Get(ai_analysis, "differential_diagnoses", None),
         ai_confidence |-> Get(ai_analysis, "confidence", None)],
     human_validation |->
        [doctor_notes |-> Get(human_review, "notes", None),
         doctor_confidence |-> Get(human_review, "confidence", None),
         modifications_from_ai |-> Get(human_review, "modifications", <<>>)],
     consensus |-> check_consensus(ai_analysis, human_review),
     next_steps |-> Get(human_review, "next_steps", <<>>),
     follow_up_required |-> Get(human_review, "follow_up_required", FALSE)]

\* ---------------------------------------------------------------- the store

EmptyStore == [k \in {} |-> None]

\* the assignment left out: the store stays as it was
Put_dropped(store, session_id, session) == store

\* hybrid_sessions = {session_id: session}: the store rebuilt around one session
Put_alone(store, session_id, session) ==
    [k \in {session_id} |-> session]

\* hybrid_sessions[session_id] = session
Put(store, session_id, session) ==
    [k \in (DOMAIN store) \cup {session_id} |->
        IF k = session_id THEN session ELSE store[k]]

\* the stage of each of the successive values of a session during a call
Stages(snapshots) == [i \in 1..Len(snapshots) |-> snapshots[i].stage]

\* a lookup that creates the missing session, as dict.setdefault would
NotFound_setdefault(store, session_id) ==
    [store |-> Put(store, session_id, HybridSession(session_id, PatientData)),
     ret |-> [error |-> "Session not found"],
     trace |-> <<>>]

\* if session_id not in hybrid_sessions: return {"error": "Session not found"}
NotFound(store, session_id) ==
    [store |-> store, ret |-> [error |-> "Session not found"], trace |-> <<>>]

\* ------------------------------------------------- start_hybrid_consultation

\* lines 70-73: the analysis is stored and the stage moves on
StoreAnalysis(session, ai_analysis) ==
    [session EXCEPT
        !.ai_analysis = Some(ai_analysis),
        !.stage = HUMAN_REVIEW_PENDING,
        !.confidence_scores.ai = Get(ai_analysis, "confidence", 7500)]

\* the outcome that completes the session without its recommendation
StartOutcome_nofinal(session, ai_analysis, needs_human) ==
    IF needs_human
    THEN [session EXCEPT
            !.conversation_history = Append(@,
                [actor |-> "system",
                 message |-> "AI analysis complete. Escalating to human doctor for validation.",
                 reason |-> Get(ai_analysis, "escalation_reason",
                                "Complex case requiring human expertise")])]
    ELSE [session EXCEPT !.stage = COMPLETED]

\* the outcome that escalates without a transcript entry
StartOutcome_silent(session, ai_analysis, needs_human) ==
    IF needs_human
    THEN session
    ELSE [session EXCEPT
            !.stage = COMPLETED,
            !.final_recommendation = Some(ai_analysis)]

\* lines 78-87: escalate to a human, or complete with the AI's analysis
StartOutcome(session, ai_analysis, needs_human) ==
    IF needs_human
    THEN [session EXCEPT
            !.conversation_history = Append(@,
                [actor |-> "system",
                 message |-> "AI analysis complete. Escalating to human doctor for validation.",
                 reason |-> Get(ai_analysis, "escalation_reason",
                                "Complex case requiring human expertise")])]
    ELSE [session EXCEPT
            !.stage = COMPLETED,
            !.final_recommendation = Some(ai_analysis)]

start_hybrid_consultation(store, t, patient_data, symptoms, urgency) ==
    LET session_id == SessionId(t)
        s0 == HybridSession(session_id, patient_data)
        ai_analysis == get_ai_analysis(symptoms, patient_data, urgency)
        s1 == StoreAnalysis(s0, ai_analysis)
        needs_human == should_escalate_to_human(ai_analysis, urgency)
        s2 == StartOutcome(s1, ai_analysis, needs_human)
    IN  [store |-> Put(store, session_id, s2),
         ret |-> [session_id |-> session_id,
                  stage |-> s2.stage,
                  ai_analysis |-> ai_analysis,
                  needs_human_review |-> needs_human,
                  estimated_wait_time |->
                      IF needs_human THEN "5-15 minutes" ELSE "0 minutes",
                  collaboration_type |->
                      IF needs_human THEN "hybrid" ELSE "ai_only"],
         trace |-> Stages(<<s0, s1, s2>>)]

\* ------------------------------------------------------- submit_human_review

\* lines 117-123: the review is stored with its doctor
StoreReview(session, doctor_id, doctor_name, review) ==
    [session EXCEPT
        !.stage = HUMAN_REVIEWING,
        !.human_review =
            Some(review @@ [doctor_id |-> doctor_id, doctor_name |-> doctor_name])]

\* the two branches exchanged
ReviewStage_inverted(ai_analysis, human_review) ==
    IF check_consensus(ai_analysis, human_review)
    THEN DISAGREEMENT
    ELSE CONSENSUS_REACHED

\* lines 133-136: consensus or disagreement
ReviewStage(ai_analysis, human_review) ==
    IF check_consensus(ai_analysis, human_review)
    THEN CONSENSUS_REACHED
    ELSE DISAGREEMENT

\* the blend with its two weights exchanged
RecordReview_swapped(session, hybrid_result, doctor_name, review) ==
    LET human == Get(review, "confidence", 9000)
        ai == session.confidence_scores.ai
    IN  [session EXCEPT
            !.final_recommendation = Some(hybrid_result),
            !.confidence_scores =
                [ai |-> ai, human |-> human, hybrid |-> (ai * 6 + human * 4) \div 10],
            !.conversation_history = Append(@,
                [actor |-> "human_doctor",
                 doctor_name |-> doctor_name,
                 action |-> "review_submitted",
                 agrees_with_ai |->
                    check_consensus(The(session.ai_analysis),
                                    The(session.human_review))])]

\* lines 138-152: the recommendation, the confidences and the transcript entry
RecordReview(session, hybrid_result, doctor_name, review) ==
    LET human == Get(review, "confidence", 9000)
        ai == session.confidence_scores.ai
    IN  [session EXCEPT
            !.final_recommendation = Some(hybrid_result),
            !.confidence_scores =
                [ai |-> ai, human |-> human, hybrid |-> (ai * 4 + human * 6) \div 10],
            !.conversation_history = Append(@,
                [actor |-> "human_doctor",
                 doctor_name |-> doctor_name,
                 action |-> "review_submitted",
                 agrees_with_ai |->
                    check_consensus(The(session.ai_analysis),
                                    The(session.human_review))])]

submit_human_review(store, session_id, doctor_id, doctor_name, review) ==
    IF session_id \notin DOMAIN store THEN NotFound(store, session_id)
    ELSE
    LET s0 == store[session_id]
        s1 == StoreReview(s0, doctor_id, doctor_name, review)
        hybrid_result ==
            create_hybrid_recommendation(The(s1.ai_analysis), The(s1.human_review),
                                         s1.patient_data)
        s2 == [s1 EXCEPT
                !.stage = ReviewStage(The(s1.ai_analysis), The(s1.human_review))]
        s3 == RecordReview(s2, hybrid_result, doctor_name, review)
    IN  [store |-> Put(store, session_id, s3),
         ret |-> [session_id |-> session_id,
                  stage |-> s3.stage,
                  hybrid_recommendation |-> hybrid_result,
                  consensus |-> s3.stage = CONSENSUS_REACHED,
                  confidence |-> s3.confidence_scores.hybrid],
         trace |-> Stages(<<s0, s1, s2, s3>>)]

\* ---------------------------------------------- get_hybrid_consultation_status

get_hybrid_consultation_status(store, session_id) ==
    IF session_id \notin DOMAIN store THEN NotFound(store, session_id)
    ELSE
    LET session == store[session_id]
    IN  [store |-> store,
         ret |-> [session_id |-> session_id,
                  stage |-> session.stage,
                  ai_analysis |-> session.ai_analysis,
                  human_review |-> session.human_review,
                  final_recommendation |-> session.final_recommendation,
                  confidence_scores |-> session.confidence_scores,
                  conversation_history |-> session.conversation_history],
         trace |-> Stages(<<session>>)]

\* ------------------------------------------------- add_collaboration_message

\* the AI answers a patient in every stage
QuickResponseDue_anystage(actor, stage) == actor = "patient"

\* line 223: the AI answers a patient while the doctor has not responded
QuickResponseDue(actor, stage) ==
    actor = "patient" /\ stage = HUMAN_REVIEW_PENDING

\* a message of the doctor moves a pending session to human_reviewing
add_collaboration_message_reviewing(store, session_id, actor, message, metadata) ==
    IF session_id \notin DOMAIN store THEN NotFound(store, session_id)
    ELSE
    LET s0 == store[session_id]
        message_entry ==
            [actor |-> actor, message |-> message,
             metadata |-> IF IsNone(metadata) THEN <<>> ELSE The(metadata)]
        s1 == [s0 EXCEPT
                 !.conversation_history = Append(@, message_entry),
                 !.stage = IF actor = "human_doctor" /\ @ = HUMAN_REVIEW_PENDING
                           THEN HUMAN_REVIEWING ELSE @]
        due == QuickResponseDue(actor, s1.stage)
        response ==
            IF due THEN Some(ai_quick_response(message, The(s1.ai_analysis)))
            ELSE None
        s2 == IF due
              THEN [s1 EXCEPT
                      !.conversation_history = Append(@,
                          [actor |-> "ai_agent",
                           message |-> The(response),
                           type |-> "quick_response"])]
              ELSE s1
    IN  [store |-> Put(store, session_id, s2),
         ret |-> [success |-> TRUE,
                  session_id |-> session_id,
                  message_added |-> message_entry,
                  ai_response |-> response,
                  current_stage |-> s2.stage],
         trace |-> Stages(<<s0, s1, s2>>)]

add_collaboration_message(store, session_id, actor, message, metadata) ==
    IF session_id \notin DOMAIN store THEN NotFound(store, session_id)
    ELSE
    LET s0 == store[session_id]
        message_entry ==
            [actor |-> actor, message |-> message,
             metadata |-> IF IsNone(metadata) THEN <<>> ELSE The(metadata)]
        s1 == [s0 EXCEPT !.conversation_history = Append(@, message_entry)]
        due == QuickResponseDue(actor, s1.stage)
        response ==
            IF due THEN Some(ai_quick_response(message, The(s1.ai_analysis)))
            ELSE None
        s2 == IF due
              THEN [s1 EXCEPT
                      !.conversation_history = Append(@,
                          [actor |-> "ai_agent",
                           message |-> The(response),
                           type |-> "quick_response"])]
              ELSE s1
    IN  [store |-> Put(store, session_id, s2),
         ret |-> [success |-> TRUE,
                  session_id |-> session_id,
                  message_added |-> message_entry,
                  ai_response |-> response,
                  current_stage |-> s2.stage],
         trace |-> Stages(<<s0, s1, s2>>)]

\* -------------------------------------------------- request_human_escalation

\* a session that is completed or settled by a review is reopened
ReopenStage_settled(stage) ==
    IF stage \in {COMPLETED, CONSENSUS_REACHED, DISAGREEMENT}
    THEN HUMAN_REVIEW_PENDING ELSE stage

\* every session is sent back to the pending stage
ReopenStage_always(stage) == HUMAN_REVIEW_PENDING

\* lines 257-258: a completed session is reopened
ReopenStage(stage) ==
    IF stage = COMPLETED THEN HUMAN_REVIEW_PENDING ELSE stage

request_human_escalation(store, session_id, reason, patient_message) ==
    IF session_id \notin DOMAIN store THEN NotFound(store, session_id)
    ELSE
    LET s0 == store[session_id]
        s1 == [s0 EXCEPT !.stage = ReopenStage(@)]
        escalation_entry ==
            [actor |-> "system",
             action |-> "escalation_requested",
             reason |-> reason,
             patient_message |-> patient_message,
             priority |-> determine_priority(reason, The(s1.ai_analysis))]
        s2 == [s1 EXCEPT !.conversation_history = Append(@, escalation_entry)]
        suggested_doctor ==
            match_doctor_for_case(
                Get(The(s2.ai_analysis), "symptoms", None),
                Get(The(s2.ai_analysis), "urgency_level", "medium"),
                s2.patient_data)
    IN  [store |-> Put(store, session_id, s2),
         ret |-> [success |-> TRUE,
                  session_id |-> session_id,
                  escalation_status |-> "pending",
                  suggested_doctor |-> suggested_doctor,
                  estimated_response_time |-> "10-30 minutes",
                  priority |-> escalation_entry.priority],
         trace |-> Stages(<<s0, s1, s2>>)]

\* ------------------------------------------------------------------ actions

RECURSIVE Total(_, _)
\* the number of transcript entries of the sessions `keys` of the store
Total(store, keys) ==
    IF keys = {} THEN 0
    ELSE LET k == CHOOSE x \in keys : TRUE
         IN  Len(store[k].conversation_history) + Total(store, keys \ {k})

\* the store holds at most MaxStore sessions and transcript entries together
WithinBound(store) ==
    Cardinality(DOMAIN store) + Total(store, DOMAIN store) <= MaxStore

\* a call is made, runs to completion and returns
Returns(c, r) ==
    /\ WithinBound(r.store)
    /\ hybrid_sessions' = r.store
    /\ call' = c
    /\ ret' = r.ret
    /\ stage_trace' = r.trace
    /\ UNCHANGED <<run, tasks>>

Init ==
    /\ hybrid_sessions = EmptyStore
    /\ now = 0
    /\ call = [op |-> "none"]
    /\ ret = [none |-> TRUE]
    /\ stage_trace = <<>>
    /\ run = None
    /\ tasks = None

\* Only start_hybrid_consultation reads the clock.  Since the start call
\* before it the clock has moved on by one unit of its resolution, or not at
\* all: then the two calls read the same value.
StartHybridConsultation ==
    \E t \in {now, now + 1}, urgency \in Urgencies :
        /\ t <= MaxClock
        /\ now' = t
        /\ Returns([op |-> "start_hybrid_consultation",
                    session_id |-> SessionId(t), urgency |-> urgency],
                   start_hybrid_consultation(hybrid_sessions, t, PatientData,
                                             Symptoms, urgency))

SubmitHumanReview ==
    \E session_id \in SessionIds, review \in Reviews :
        /\ UNCHANGED now
        /\ Returns([op |-> "submit_human_review",
                    session_id |-> session_id],
                   submit_human_review(hybrid_sessions, session_id, DoctorId,
                                       DoctorName, review))

GetHybridConsultationStatus ==
    \E session_id \in SessionIds :
        /\ UNCHANGED now
        /\ Returns([op |-> "get_hybrid_consultation_status",
                    session_id |-> session_id],
                   get_hybrid_consultation_status(hybrid_sessions, session_id))

AddCollaborationMessage ==
    \E session_id \in SessionIds, actor \in Actors, message \in Messages :
        /\ UNCHANGED now
        /\ Returns([op |-> "add_collaboration_message",
                    session_id |-> session_id],
                   add_collaboration_message(hybrid_sessions, session_id, actor,
                                             message, None))

RequestHumanEscalation ==
    \E session_id \in SessionIds, reason \in Reasons :
        /\ UNCHANGED now
        /\ Returns([op |-> "request_human_escalation",
                    session_id |-> session_id],
                   request_human_escalation(hybrid_sessions, session_id, reason, None))

Next ==
    \/ StartHybridConsultation
    \/ SubmitHumanReview
    \/ GetHybridConsultationStatus
    \/ AddCollaborationMessage
    \/ RequestHumanEscalation

Spec == Init /\ [][Next]_vars

\* ------------------------------------------------------ the policy alone

PolicyUrgencies == {"low", "medium", "high", "emergency", "HIGH"}
PolicyConfidences == {0, 6900, 6999, 7000, 7800}

\* a differential diagnosis: at, above or without a probability
PolicyDifferentials ==
    {[condition |-> "c", probability |-> 2000],
     [condition |-> "c", probability |-> 2100],
     [condition |-> "c"]}

RECURSIVE SeqsUpTo(_, _)
\* the sequences over S of length 0..n
SeqsUpTo(S, n) ==
    IF n = 0 THEN {<<>>}
    ELSE LET shorter == SeqsUpTo(S, n - 1)
         IN  shorter \cup {Append(q, x) : q \in {r \in shorter : Len(r) = n - 1}, x \in S}

PolicyAnalyses ==
    {[confidence |-> c, red_flags |-> f, differential_diagnoses |-> d] :
        c \in PolicyConfidences,
        f \in SeqsUpTo({"flag"}, MaxFlags),
        d \in SeqsUpTo(PolicyDifferentials, MaxDiffs)}

PolicyInit ==
    /\ hybrid_sessions = EmptyStore
    /\ now = 0
    /\ stage_trace = <<>>
    /\ run = None
    /\ tasks = None
    /\ ret = [none |-> TRUE]
    /\ call \in {[op |-> "should_escalate_to_human", ai_analysis |-> a, urgency |-> u] :
                    a \in PolicyAnalyses, u \in PolicyUrgencies}

ShouldEscalate ==
    /\ "none" \in DOMAIN ret
    /\ ret' = [result |-> should_escalate_to_human(call.ai_analysis, call.urgency)]
    /\ UNCHANGED <<hybrid_sessions, now, call, stage_trace, run, tasks>>

PolicyNext == ShouldEscalate

PolicySpec == PolicyInit /\ [][PolicyNext]_vars

\* --------------------------------------------- reviews of any confidence

\* HumanReviewRequest declares "confidence: float" and nothing narrower, and
\* submit_human_review reads it as it comes: these are the confidences a
\* request can carry, in units of 1/10000
ReviewConfidences == {-1000, 5000, 9000, 10000, 15000}

ConfidenceReviews == {Review(tension_headache, c) : c \in ReviewConfidences}

SubmitReviewOfConfidence ==
    \E session_id \in SessionIds, review \in ConfidenceReviews :
        /\ UNCHANGED now
        /\ Returns([op |-> "submit_human_review",
                    session_id |-> session_id,
                    confidence |-> review.confidence],
                   submit_human_review(hybrid_sessions, session_id, DoctorId,
                                       DoctorName, review))

ConfidenceNext ==
    \/ StartHybridConsultation
    \/ SubmitReviewOfConfidence

ConfidenceSpec == Init /\ [][ConfidenceNext]_vars

\* ------------------------------------------------- the consensus check alone

MaxDiagLen == 2    \* the enumerated diagnoses have 0..MaxDiagLen characters

migraine_with_aura ==
    <<"m", "i", "g", "r", "a", "i", "n", "e", " ",
      "w", "i", "t", "h", " ", "a", "u", "r", "a">>

\* the diagnoses compared: every short text over two letters in both cases and
\* the space, and two diagnoses as doctors write them
Diagnoses ==
    SeqsUpTo({"M", "m", "A", "a", " "}, MaxDiagLen) \cup {Migraine, migraine_with_aura}

\* an analysis and a review as _check_consensus reads them: the diagnosis key
\* may be missing from either
ConsensusAnalyses ==
    {[primary_diagnosis |-> d] : d \in Diagnoses} \cup {[confidence |-> 7800]}
ConsensusReviews ==
    {[diagnosis |-> d] : d \in Diagnoses} \cup {[confidence |-> 9000]}

ConsensusInit ==
    /\ hybrid_sessions = EmptyStore
    /\ now = 0
    /\ stage_trace = <<>>
    /\ run = None
    /\ tasks = None
    /\ ret = [none |-> TRUE]
    /\ call \in {[op |-> "check_consensus", ai_analysis |-> a, human_review |-> h] :
                    a \in ConsensusAnalyses, h \in ConsensusReviews}

CheckConsensus ==
    /\ "none" \in DOMAIN ret
    /\ ret' = [result |-> check_consensus(call.ai_analysis, call.human_review)]
    /\ UNCHANGED <<hybrid_sessions, now, call, stage_trace, run, tasks>>

ConsensusNext == CheckConsensus

ConsensusSpec == ConsensusInit /\ [][ConsensusNext]_vars

\* ----------------------------------------------- dedalus_orchestrator.py
\* DedalusOrchestrator.multi_agent_diagnosis and _run_agent, with the tools of
\* mcp/medical_server.py behind them.  A run has no state but its own; every
\* call it makes outside the process (a tool, the language model) is one step,
\* whose outcome the environment chooses.

\* the keywords of _extract_specialties and _extract_conditions_and_treatments
kw_heart == <<"h", "e", "a", "r", "t">>
kw_cardiac == <<"c", "a", "r", "d", "i", "a", "c">>
kw_chest == <<"c", "h", "e", "s", "t">>
kw_head == <<"h", "e", "a", "d">>
kw_neuro == <<"n", "e", "u", "r", "o">>
kw_brain == <<"b", "r", "a", "i", "n">>
kw_migraine == <<"m", "i", "g", "r", "a", "i", "n", "e">>
kw_stomach == <<"s", "t", "o", "m", "a", "c", "h">>
kw_abdominal == <<"a", "b", "d", "o", "m", "i", "n", "a", "l">>
kw_digest == <<"d", "i", "g", "e", "s", "t">>
kw_gerd == <<"g", "e", "r", "d">>

\* the agent types as the text an f-string makes of them
AgentText ==
    [triage |->
        <<"t", "r", "i", "a", "g", "e">>,
     cardiology |->
        <<"c", "a", "r", "d", "i", "o", "l", "o", "g", "y">>,
     neurology |->
        <<"n", "e", "u", "r", "o", "l", "o", "g", "y">>,
     gastroenterology |->
        <<"g", "a", "s", "t", "r", "o", "e", "n", "t", "e", "r", "o", "l", "o", "g", "y">>,
     financial |->
        <<"f", "i", "n", "a", "n", "c", "i", "a", "l">>,
     coordinator |->
        <<"c", "o", "o", "r", "d", "i", "n", "a", "t", "o", "r">>]

MockPrefix == <<"M", "o", "c", "k", " ">>
MockSuffix ==
    <<" ", "a", "s", "s", "e", "s", "s", "m", "e", "n", "t", " ", "(", "D",
      "e", "d", "a", "l", "u", "s", " ", "n", "o", "t", " ", "c", "o", "n",
      "f", "i", "g", "u", "r", "e", "d", ")">>
AgentErrorPrefix ==
    <<"A", "g", "e", "n", "t", " ", "e", "r", "r", "o", "r", ":", " ">>

\* what the language model answers: narratives that select each set of specialists
ChestPain == <<"C", "h", "e", "s", "t", " ", "p", "a", "i", "n">>
Gerd == <<"G", "E", "R", "D">>
Rest == <<"R", "e", "s", "t">>
HeartHeadStomach ==
    <<"H", "e", "a", "r", "t", ",", " ", "h", "e", "a", "d", ",", " ", "s",
      "t", "o", "m", "a", "c", "h">>
Stable == <<"S", "t", "a", "b", "l", "e">>
BrainFog == <<"B", "R", "A", "I", "N", " ", "f", "o", "g">>
Indigestion == <<"I", "n", "d", "i", "g", "e", "s", "t", "i", "o", "n">>
CardiacRisk == <<"C", "a", "r", "d", "i", "a", "c", " ", "r", "i", "s", "k">>
GerdWithMigraine ==
    <<"G", "E", "R", "D", ",", " ", "m", "i", "g", "r", "a", "i", "n", "e">>
Affordable == <<"A", "f", "f", "o", "r", "d", "a", "b", "l", "e">>
Summary == <<"S", "u", "m", "m", "a", "r", "y">>
Timeout == <<"t", "i", "m", "e", "o", "u", "t">>
SymptomDescription == <<"h", "e", "a", "d", "a", "c", "h", "e">>

ContainsAny(text, words) == \E w \in words : In(w, text)

Specialists == {"cardiology", "neurology", "gastroenterology"}

\* the cardiology keywords without "chest"
extract_specialties_nochest(triage_result) ==
    LET assessment == Lower(Get(triage_result, "assessment", <<>>))
        specialties ==
            (IF ContainsAny(assessment, {kw_heart, kw_cardiac})
             THEN <<"cardiology">> ELSE <<>>)
            \o (IF ContainsAny(assessment, {kw_head, kw_neuro, kw_brain, kw_migraine})
                THEN <<"neurology">> ELSE <<>>)
            \o (IF ContainsAny(assessment,
                               {kw_stomach, kw_abdominal, kw_digest, kw_gerd})
                THEN <<"gastroenterology">> ELSE <<>>)
    IN  IF specialties # <<>> THEN specialties ELSE <<"cardiology", "neurology">>

\* _extract_specialties
extract_specialties(triage_result) ==
    LET assessment == Lower(Get(triage_result, "assessment", <<>>))
        specialties ==
            (IF ContainsAny(assessment, {kw_heart, kw_cardiac, kw_chest})
             THEN <<"cardiology">> ELSE <<>>)
            \o (IF ContainsAny(assessment, {kw_head, kw_neuro, kw_brain, kw_migraine})
                THEN <<"neurology">> ELSE <<>>)
            \o (IF ContainsAny(assessment,
                               {kw_stomach, kw_abdominal, kw_digest, kw_gerd})
                THEN <<"gastroenterology">> ELSE <<>>)
    IN  IF specialties # <<>> THEN specialties ELSE <<"cardiology", "neurology">>

RECURSIVE Conditions(_)
\* the loop of _extract_conditions_and_treatments over specialist_results, a
\* dict in insertion order: here the sequence of its items
Conditions(specialist_results) ==
    IF specialist_results = <<>> THEN <<>>
    ELSE
    LET assessment == Lower(Get(Head(specialist_results).result, "assessment", <<>>))
        found ==
            IF In(kw_migraine, assessment)
            THEN <<[condition |-> "Migraine", treatment |-> "Triptans medication"]>>
            ELSE IF In(kw_gerd, assessment)
            THEN <<[condition |-> "GERD", treatment |-> "Proton pump inhibitors"]>>
            ELSE IF In(kw_cardiac, assessment) \/ In(kw_heart, assessment)
            THEN <<[condition |-> "Cardiac Event", treatment |-> "Emergency care"]>>
            ELSE <<>>
    IN  found \o Conditions(Tail(specialist_results))

\* _extract_conditions_and_treatments
extract_conditions_and_treatments(specialist_results) ==
    LET conditions == Conditions(specialist_results)
    IN  [conditions |->
            IF conditions # <<>> THEN conditions
            ELSE <<[condition |-> "General", treatment |-> "Standard care"]>>]

\* the tool calls multi_agent_diagnosis asks each agent to make; an entry of
\* the triage list is None for the anonymous user
TriageTools(symptom_description, user_id) ==
    <<Some([tool |-> "search_symptoms",
            args |-> [query |-> symptom_description, top_k |-> 10,
                      specialty |-> "all"]]),
      IF user_id # "anonymous"
      THEN Some([tool |-> "get_patient_timeline",
                 args |-> [user_id |-> user_id, days |-> 90]])
      ELSE None>>

SpecialistTools(symptom_description, specialty) ==
    <<Some([tool |-> "search_symptoms",
            args |-> [query |-> symptom_description, top_k |-> 5,
                      specialty |-> specialty]])>>

FinancialTools(financial_context) ==
    LET conditions == Get(financial_context, "conditions", <<>>)
        n == IF Len(conditions) < 3 THEN Len(conditions) ELSE 3
    IN  [i \in 1..n |->
            Some([tool |-> "analyze_treatment_cost", args |-> conditions[i]])]

\* What the service behind a tool does.  The similarity search catches its own
\* failures and answers with stored matches, and the cost estimate is a table
\* in memory.  The patient timeline opens its cursor outside any try
\* (db/snowflake_client.py, lines 413-414): it raises when the connection pool
\* is empty and, without Snowflake credentials, on the undefined name DictCursor.
ToolServices(tool_name) ==
    IF tool_name = "get_patient_timeline"
    THEN {"answers", "raises"}
    ELSE {"answers"}

\* MedicalMCPServer.execute_tool: no branch catches what its service raises

execute_tool(tool_name, arguments, service) ==
    IF tool_name \in {"search_symptoms", "get_patient_timeline",
                      "analyze_treatment_cost", "get_condition_insights",
                      "calculate_financial_risk"}
    THEN IF service = "raises"
         THEN [raised |-> TRUE, exception |-> Timeout]
         ELSE [raised |-> FALSE, value |-> [status |-> "success"]]
    ELSE [raised |-> FALSE,
          value |-> [status |-> "error", message |-> "Unknown tool"]]

\* what client.chat.completions.create does: it answers with a narrative or throws
ModelAnswers(agent_type) ==
    IF agent_type = "triage"
    THEN {ChestPain, Migraine, Gerd, Rest, HeartHeadStomach, BrainFog, Indigestion}
    ELSE IF agent_type \in Specialists
    THEN {Migraine, Stable, Gerd, GerdWithMigraine, CardiacRisk}
    ELSE IF agent_type = "financial" THEN {Affordable}
    ELSE {Summary}

ModelOutcomes(agent_type) ==
    {[threw |-> FALSE, content |-> n] : n \in ModelAnswers(agent_type)}
    \cup {[threw |-> TRUE, message |-> Timeout]}

\* the frame of one _run_agent call
Agent(agent_type, tools_to_use) ==
    [agent_type |-> agent_type, tools_to_use |-> tools_to_use, tool_results |-> <<>>]

\* the entries of tools_to_use the loop of lines 108-109 still has to execute
Pending(tools_to_use) == SelectSeq(tools_to_use, LAMBDA tool_call : ~IsNone(tool_call))

\* multi_agent_diagnosis is called: the triage agent is the first to run
NewRun(symptom_description, user_id, client) ==
    [symptom_description |-> symptom_description,
     user_id |-> user_id,
     client |-> client,
     phase |-> "triage",
     agent |-> Agent("triage", TriageTools(symptom_description, user_id)),
     triage_result |-> None,
     recommended_specialties |-> <<>>,
     specialist_results |-> <<>>,
     financial_result |-> None,
     final_diagnosis |-> None,
     result |-> None,
     exception |-> None,
     events |-> <<>>]

\* the calls made outside the process so far, in order
Logged(r, event) == [r EXCEPT !.events = Append(@, event)]

\* an exception leaves multi_agent_diagnosis
Raise(r, exception) ==
    [r EXCEPT !.phase = "raised", !.exception = Some(exception), !.agent = None]

\* the coordinator's synthesis in the place of the financial analysis
DiagnosticResult_swapped(r) ==
    [patient_symptoms |-> r.symptom_description,
     triage_assessment |-> The(r.triage_result),
     specialist_consultations |-> r.specialist_results,
     financial_analysis |-> The(r.final_diagnosis),
     final_diagnosis |-> The(r.final_diagnosis),
     multi_agent_process |->
        [triage_completed |-> TRUE,
         specialists_consulted |->
            [i \in 1..Len(r.specialist_results) |-> r.specialist_results[i].specialty],
         financial_assessed |-> TRUE,
         coordinated |-> TRUE]]

\* lines 83-95: the dict multi_agent_diagnosis returns
DiagnosticResult(r) ==
    [patient_symptoms |-> r.symptom_description,
     triage_assessment |-> The(r.triage_result),
     specialist_consultations |-> r.specialist_results,
     financial_analysis |-> The(r.financial_result),
     final_diagnosis |-> The(r.final_diagnosis),
     multi_agent_process |->
        [triage_completed |-> TRUE,
         specialists_consulted |->
            [i \in 1..Len(r.specialist_results) |-> r.specialist_results[i].specialty],
         financial_assessed |-> TRUE,
         coordinated |-> TRUE]]

\* the specialties of the list that the test of line 52 lets through
Consulted(recommended_specialties) ==
    SelectSeq(recommended_specialties, LAMBDA specialty : specialty \in Specialists)

\* the financial agent is set up as soon as one specialist has answered
Proceed_early_financial(r, result) ==
    IF r.phase = "triage" THEN
        LET recommended == extract_specialties(result)
            first == Consulted(recommended)
            t == [r EXCEPT !.triage_result = Some(result),
                           !.recommended_specialties = recommended]
        IN  IF first # <<>>
            THEN [t EXCEPT
                    !.phase = "specialists",
                    !.agent = Agent(first[1],
                                    SpecialistTools(r.symptom_description, first[1]))]
            ELSE LET financial_context == extract_conditions_and_treatments(<<>>)
                 IN  [t EXCEPT !.phase = "financial",
                               !.agent = Agent("financial",
                                               FinancialTools(financial_context))]
    ELSE IF r.phase = "specialists" THEN
        LET specialist_results ==
                Append(r.specialist_results,
                       [specialty |-> r.agent.agent_type, result |-> result])
            todo == Consulted(r.recommended_specialties)
            next == Len(specialist_results) + 1
            t == [r EXCEPT !.specialist_results = specialist_results]
        IN  IF next <= Len(todo) /\ next <= 1
            THEN [t EXCEPT
                    !.agent = Agent(todo[next],
                                    SpecialistTools(r.symptom_description, todo[next]))]
            ELSE LET financial_context ==
                        extract_conditions_and_treatments(specialist_results)
                 IN  [t EXCEPT !.phase = "financial",
                               !.agent = Agent("financial",
                                               FinancialTools(financial_context))]
    ELSE IF r.phase = "financial" THEN
        [r EXCEPT !.financial_result = Some(result),
                  !.phase = "coordinator",
                  !.agent = Agent("coordinator", <<>>)]
    ELSE
        LET t == [r EXCEPT !.final_diagnosis = Some(result),
                           !.phase = "returned",
                           !.agent = None]
        IN  [t EXCEPT !.result = Some(DiagnosticResult(t))]

\* multi_agent_diagnosis between the return of one _run_agent call and the
\* next: the result is kept and the next agent set up, or the run returns
Proceed(r, result) ==
    IF r.phase = "triage" THEN
        LET recommended == extract_specialties(result)
            first == Consulted(recommended)
            t == [r EXCEPT !.triage_result = Some(result),
                           !.recommended_specialties = recommended]
        IN  IF first # <<>>
            THEN [t EXCEPT
                    !.phase = "specialists",
                    !.agent = Agent(first[1],
                                    SpecialistTools(r.symptom_description, first[1]))]
            ELSE LET financial_context == extract_conditions_and_treatments(<<>>)
                 IN  [t EXCEPT !.phase = "financial",
                               !.agent = Agent("financial",
                                               FinancialTools(financial_context))]
    ELSE IF r.phase = "specialists" THEN
        LET specialist_results ==
                Append(r.specialist_results,
                       [specialty |-> r.agent.agent_type, result |-> result])
            todo == Consulted(r.recommended_specialties)
            next == Len(specialist_results) + 1
            t == [r EXCEPT !.specialist_results = specialist_results]
        IN  IF next <= Len(todo)
            THEN [t EXCEPT
                    !.agent = Agent(todo[next],
                                    SpecialistTools(r.symptom_description, todo[next]))]
            ELSE LET financial_context ==
                        extract_conditions_and_treatments(specialist_results)
                 IN  [t EXCEPT !.phase = "financial",
                               !.agent = Agent("financial",
                                               FinancialTools(financial_context))]
    ELSE IF r.phase = "financial" THEN
        [r EXCEPT !.financial_result = Some(result),
                  !.phase = "coordinator",
                  !.agent = Agent("coordinator", <<>>)]
    ELSE
        LET t == [r EXCEPT !.final_diagnosis = Some(result),
                           !.phase = "returned",
                           !.agent = None]
        IN  [t EXCEPT !.result = Some(DiagnosticResult(t))]

\* lines 108-117: the next tool call of the agent is executed; nothing catches
\* what it raises
RunTool(r, service) ==
    LET pending == Pending(r.agent.tools_to_use)
        tool_call == The(Head(pending))
        done == execute_tool(tool_call.tool, tool_call.args, service)
        logged == Logged(r, [call |-> "tool", agent |-> r.agent.agent_type,
                             tool |-> tool_call.tool, failed |-> done.raised])
    IN  IF done.raised THEN Raise(logged, done.exception)
        ELSE [logged EXCEPT
                !.agent.tools_to_use = Tail(pending),
                !.agent.tool_results =
                    Append(@, [tool |-> tool_call.tool, result |-> done.value])]

\* the model call with no try around it
RunModel_uncaught(r, outcome) ==
    LET logged == Logged(r, [call |-> "model", agent |-> r.agent.agent_type,
                             failed |-> outcome.threw])
    IN  IF outcome.threw THEN Raise(logged, outcome.message)
        ELSE Proceed(logged,
                     [agent |-> r.agent.agent_type,
                      assessment |-> outcome.content,
                      tools_used |->
                          [i \in 1..Len(r.agent.tool_results) |->
                              r.agent.tool_results[i].tool],
                      data_sources |-> Len(r.agent.tool_results)])

\* lines 129-152: the model call and what _run_agent returns after it
RunModel(r, outcome) ==
    LET logged == Logged(r, [call |-> "model", agent |-> r.agent.agent_type,
                             failed |-> outcome.threw])
    IN  Proceed(logged,
                IF outcome.threw
                THEN [agent |-> r.agent.agent_type,
                      assessment |-> AgentErrorPrefix \o outcome.message,
                      error |-> TRUE]
                ELSE [agent |-> r.agent.agent_type,
                      assessment |-> outcome.content,
                      tools_used |->
                          [i \in 1..Len(r.agent.tool_results) |->
                              r.agent.tool_results[i].tool],
                      data_sources |-> Len(r.agent.tool_results)])

\* the fallback assessment without its mark
mock_agent_response_unmarked(agent_type) ==
    [agent |-> agent_type,
     assessment |-> MockPrefix \o AgentText[agent_type] \o MockSuffix]

\* _mock_agent_response: the analysis it awaits catches its own exceptions and
\* its value is not used
mock_agent_response(agent_type) ==
    [agent |-> agent_type,
     assessment |-> MockPrefix \o AgentText[agent_type] \o MockSuffix,
     mock |-> TRUE]

RunMock(r) ==
    Proceed(Logged(r, [call |-> "mock", agent |-> r.agent.agent_type,
                       failed |-> FALSE]),
            mock_agent_response(r.agent.agent_type))

Running == run.phase \in {"triage", "specialists", "financial", "coordinator"}

UserIds == {"anonymous", "user_1"}

DiagnosisInit ==
    /\ hybrid_sessions = EmptyStore
    /\ now = 0
    /\ stage_trace = <<>>
    /\ tasks = None
    /\ call = [op |-> "multi_agent_diagnosis"]
    /\ ret = [none |-> TRUE]
    /\ run \in {NewRun(SymptomDescription, user_id, client) :
                    user_id \in UserIds, client \in BOOLEAN}

ExecuteTool ==
    /\ Running
    /\ run.client
    /\ Pending(run.agent.tools_to_use) # <<>>
    /\ \E service \in ToolServices(The(Head(Pending(run.agent.tools_to_use))).tool) :
          run' = RunTool(run, service)
    /\ UNCHANGED <<hybrid_sessions, now, call, ret, stage_trace, tasks>>

CallModel ==
    /\ Running
    /\ run.client
    /\ Pending(run.agent.tools_to_use) = <<>>
    /\ \E outcome \in ModelOutcomes(run.agent.agent_type) :
          run' = RunModel(run, outcome)
    /\ UNCHANGED <<hybrid_sessions, now, call, ret, stage_trace, tasks>>

MockAgentResponse ==
    /\ Running
    /\ ~run.client
    /\ run' = RunMock(run)
    /\ UNCHANGED <<hybrid_sessions, now, call, ret, stage_trace, tasks>>

DiagnosisNext ==
    \/ ExecuteTool
    \/ CallModel
    \/ MockAgentResponse

DiagnosisSpec == DiagnosisInit /\ [][DiagnosisNext]_vars

\* -------------------------------------------- the handlers on the event loop
\* Requests arrive while others are in flight: each becomes a task of the event
\* loop, which runs one task at a time, from where the task stands to the next
\* await that suspends it or to its return.  The calls of this specification
\* are addressed to the session the store holds.

MaxCalls == 3      \* the calls that arrive in one behaviour

\* The coroutines the handlers await are _get_ai_analysis,
\* _create_hybrid_recommendation, _ai_quick_response and _match_doctor_for_case.
\* An await hands control to the event loop only if the awaited coroutine
\* itself awaits something that is not ready; the body of none of the four
\* contains an await.
SuspendingCoroutines == {}

\* the analysis of a start waits for its agents
Suspends_analysis(coroutine) == coroutine = "_get_ai_analysis"

\* every awaited coroutine waits for input or output
Suspends_io(coroutine) == TRUE

Suspends(coroutine) == coroutine \in SuspendingCoroutines

\* a call that has arrived, and the task that will run it
ReviewCall(session_id, review) ==
    [op |-> "submit_human_review", session_id |-> session_id, review |-> review]
MessageCall(session_id, actor, message) ==
    [op |-> "add_collaboration_message", session_id |-> session_id,
     actor |-> actor, message |-> message]
EscalationCall(session_id, reason) ==
    [op |-> "request_human_escalation", session_id |-> session_id, reason |-> reason]

Task(c) == [call |-> c, pc |-> "entry", awaited |-> None]

\* a task at the await of a coroutine, with the value the coroutine gives
Awaiting(store, task, pc, coroutine, value) ==
    [store |-> store, returned |-> FALSE, coroutine |-> coroutine,
     task |-> [task EXCEPT !.pc = pc, !.awaited = Some(value)]]

Returned(store, task) ==
    [store |-> store, returned |-> TRUE, coroutine |-> "none", task |-> task]

\* submit_human_review up to its await (lines 113-130) and after it (133-161)
SubmitSegment(store, task) ==
    LET c == task.call
        id == c.session_id
    IN  IF task.pc = "entry"
        THEN IF id \notin DOMAIN store THEN Returned(store, task)
             ELSE LET s1 == StoreReview(store[id], DoctorId, DoctorName, c.review)
                  IN  Awaiting(Put(store, id, s1), task, "recommended",
                               "_create_hybrid_recommendation",
                               create_hybrid_recommendation(
                                   The(s1.ai_analysis), The(s1.human_review),
                                   s1.patient_data))
        ELSE LET s1 == store[id]
                 s2 == [s1 EXCEPT
                         !.stage = ReviewStage(The(s1.ai_analysis),
                                               The(s1.human_review))]
                 s3 == RecordReview(s2, The(task.awaited), DoctorName, c.review)
             IN  Returned(Put(store, id, s3), task)

\* add_collaboration_message up to its await (lines 206-224) and after it (226-239)
MessageSegment(store, task) ==
    LET c == task.call
        id == c.session_id
    IN  IF task.pc = "entry"
        THEN IF id \notin DOMAIN store THEN Returned(store, task)
             ELSE LET s1 == [store[id] EXCEPT
                              !.conversation_history = Append(@,
                                  [actor |-> c.actor, message |-> c.message,
                                   metadata |-> <<>>])]
                  IN  IF QuickResponseDue(c.actor, s1.stage)
                      THEN Awaiting(Put(store, id, s1), task, "answered",
                                    "_ai_quick_response",
                                    ai_quick_response(c.message, The(s1.ai_analysis)))
                      ELSE Returned(Put(store, id, s1), task)
        ELSE LET s2 == [store[id] EXCEPT
                          !.conversation_history = Append(@,
                              [actor |-> "ai_agent",
                               message |-> The(task.awaited),
                               type |-> "quick_response"])]
             IN  Returned(Put(store, id, s2), task)

\* request_human_escalation up to its await (lines 252-277), after which it
\* only returns
EscalationSegment(store, task) ==
    LET c == task.call
        id == c.session_id
    IN  IF task.pc = "entry"
        THEN IF id \notin DOMAIN store THEN Returned(store, task)
             ELSE Awaiting(request_human_escalation(store, id, c.reason, None).store,
                           task, "matched", "_match_doctor_for_case",
                           match_doctor_for_case(
                               Get(The(store[id].ai_analysis), "symptoms", None),
                               Get(The(store[id].ai_analysis), "urgency_level", "medium"),
                               store[id].patient_data))
        ELSE Returned(store, task)

Segment(store, task) ==
    IF task.call.op = "submit_human_review" THEN SubmitSegment(store, task)
    ELSE IF task.call.op = "add_collaboration_message" THEN MessageSegment(store, task)
    ELSE EscalationSegment(store, task)

RECURSIVE Resume(_, _)
\* the event loop runs a task until it returns or an await suspends it
Resume(store, task) ==
    LET seg == Segment(store, task)
    IN  IF seg.returned \/ Suspends(seg.coroutine) THEN seg
        ELSE Resume(seg.store, seg.task)

NoTasks == [k \in {} |-> None]

AsyncInit ==
    /\ hybrid_sessions \in
          {start_hybrid_consultation(EmptyStore, 0, PatientData, Symptoms, urgency).store :
              urgency \in Urgencies}
    /\ now = 0
    /\ call = [op |-> "none"]
    /\ ret = [none |-> TRUE]
    /\ stage_trace = <<>>
    /\ run = None
    /\ tasks = [frames |-> NoTasks, log |-> <<>>, base |-> hybrid_sessions]

\* a request arrives and its handler becomes a task
Arrives(c) ==
    /\ Len(tasks.log) < MaxCalls
    /\ tasks' = [tasks EXCEPT
                    !.log = Append(@, c),
                    !.frames = (Len(tasks.log) + 1 :> Task(c)) @@ @]
    /\ UNCHANGED <<hybrid_sessions, now, call, ret, stage_trace, run>>

ReviewArrives ==
    \E session_id \in DOMAIN hybrid_sessions :
        Arrives(ReviewCall(session_id, Review(Migraine, 9000)))

MessageArrives ==
    \E session_id \in DOMAIN hybrid_sessions, actor \in Actors, message \in Messages :
        Arrives(MessageCall(session_id, actor, message))

EscalationArrives ==
    \E session_id \in DOMAIN hybrid_sessions, reason \in Reasons :
        Arrives(EscalationCall(session_id, reason))

\* the event loop picks a task that is ready and runs it
RunTask ==
    \E t \in DOMAIN tasks.frames :
        LET seg == Resume(hybrid_sessions, tasks.frames[t])
        IN  /\ hybrid_sessions' = seg.store
            /\ tasks' = [tasks EXCEPT
                            !.frames =
                                IF seg.returned
                                THEN [k \in DOMAIN tasks.frames \ {t} |-> tasks.frames[k]]
                                ELSE [tasks.frames EXCEPT ![t] = seg.task]]
            /\ UNCHANGED <<now, call, ret, stage_trace, run>>

AsyncNext ==
    \/ ReviewArrives
    \/ MessageArrives
    \/ EscalationArrives
    \/ RunTask

AsyncSpec == AsyncInit /\ [][AsyncNext]_vars

\* --------------------------------------- the event loop with start requests
\* As above, with the requests that start a consultation among those in
\* flight.  A start reads the clock when its task first runs; the readings of
\* two starts differ here (equal readings are the matter of Spec).

StartCall(urgency) ==
    [op |-> "start_hybrid_consultation", urgency |-> urgency, t |-> None]

\* start_hybrid_consultation up to its await (lines 61-68) and after it (70-97)
StartSegment(store, task) ==
    LET c == task.call
        id == SessionId(The(c.t))
    IN  IF task.pc = "entry"
        THEN Awaiting(Put(store, id, HybridSession(id, PatientData)), task,
                      "analysed", "_get_ai_analysis",
                      get_ai_analysis(Symptoms, PatientData, c.urgency))
        ELSE LET ai_analysis == The(task.awaited)
                 s1 == StoreAnalysis(store[id], ai_analysis)
                 s2 == StartOutcome(s1, ai_analysis,
                                    should_escalate_to_human(ai_analysis, c.urgency))
             IN  Returned(Put(store, id, s2), task)

RECURSIVE ResumeAny(_, _)
\* the event loop runs a task, of a start or of another call, until it
\* returns or an await suspends it
ResumeAny(store, task) ==
    LET seg == IF task.call.op = "start_hybrid_consultation"
               THEN StartSegment(store, task)
               ELSE Segment(store, task)
    IN  IF seg.returned \/ Suspends(seg.coroutine) THEN seg
        ELSE ResumeAny(seg.store, seg.task)

LoopInit ==
    /\ hybrid_sessions = EmptyStore
    /\ now = 0
    /\ call = [op |-> "none"]
    /\ ret = [none |-> TRUE]
    /\ stage_trace = <<>>
    /\ run = None
    /\ tasks = [frames |-> NoTasks, log |-> <<>>, base |-> hybrid_sessions]

StartArrives ==
    \E urgency \in Urgencies : Arrives(StartCall(urgency))

\* the readings datetime.now() can give a start whose task runs for the first time
Readings == {t \in now..MaxClock : SessionId(t) \notin DOMAIN hybrid_sessions}

\* the frames after a task has run: without it when it has returned
FramesAfter(frames, k, seg) ==
    IF seg.returned
    THEN [j \in DOMAIN frames \ {k} |-> frames[j]]
    ELSE [frames EXCEPT ![k] = seg.task]

\* the event loop picks a start that is ready and runs it
RunStart ==
    \E k \in DOMAIN tasks.frames :
        /\ tasks.frames[k].call.op = "start_hybrid_consultation"
        /\ \E t \in IF tasks.frames[k].pc = "entry" THEN Readings ELSE {now} :
              LET task == IF tasks.frames[k].pc = "entry"
                          THEN [tasks.frames[k] EXCEPT !.call.t = Some(t)]
                          ELSE tasks.frames[k]
                  seg == ResumeAny(hybrid_sessions, task)
              IN  /\ hybrid_sessions' = seg.store
                  /\ now' = t
                  /\ tasks' = [tasks EXCEPT !.frames = FramesAfter(@, k, seg)]
        /\ UNCHANGED <<call, ret, stage_trace, run>>

\* the event loop picks the task of another call and runs it
RunOther ==
    \E k \in DOMAIN tasks.frames :
        /\ tasks.frames[k].call.op # "start_hybrid_consultation"
        /\ LET seg == ResumeAny(hybrid_sessions, tasks.frames[k])
           IN  /\ hybrid_sessions' = seg.store
               /\ tasks' = [tasks EXCEPT !.frames = FramesAfter(@, k, seg)]
        /\ UNCHANGED <<now, call, ret, stage_trace, run>>

LoopNext ==
    \/ StartArrives
    \/ ReviewArrives
    \/ MessageArrives
    \/ EscalationArrives
    \/ RunStart
    \/ RunOther

LoopSpec == LoopInit /\ [][LoopNext]_vars

\* ------------------------------------------------------------------ claims

\* what the last call was, and on which session
Called(op) == call.op = op
Failed == "error" \in DOMAIN ret
Session == hybrid_sessions[call.session_id]

\* C1: when submit_human_review returns for an existing session, the stage is
\* consensus_reached if the consensus check holds and disagreement otherwise;
\* it is never left at human_review_pending or human_reviewing, and the call
\* never assigns ai_analyzing.
C1_ReviewSettlesStage ==
    (Called("submit_human_review") /\ ~Failed) =>
        /\ Session.stage \in {CONSENSUS_REACHED, DISAGREEMENT}
        /\ Session.stage = CONSENSUS_REACHED
              <=> check_consensus(The(Session.ai_analysis), The(Session.human_review))
        /\ ret.stage = Session.stage
        /\ \A i \in 2..Len(stage_trace) : stage_trace[i] # AI_ANALYZING

\* a review of a pending session has ended in disagreement
C1_Witness ==
    /\ Called("submit_human_review") /\ ~Failed
    /\ stage_trace[1] = HUMAN_REVIEW_PENDING
    /\ Session.stage = DISAGREEMENT

\* C2: when the policy does not escalate the analysis start obtained, the
\* session start returns is completed and its final_recommendation is its
\* ai_analysis.
C2_NoEscalationCompletes ==
    (Called("start_hybrid_consultation")
        /\ ~should_escalate_to_human(ret.ai_analysis, call.urgency)) =>
        /\ ret.stage = COMPLETED
        /\ Session.stage = COMPLETED
        /\ Session.ai_analysis = Some(ret.ai_analysis)
        /\ Session.final_recommendation = Session.ai_analysis

C2_Witness ==
    /\ Called("start_hybrid_consultation")
    /\ ~ret.needs_human_review
    /\ Session.stage = COMPLETED

\* C3: when the policy escalates the analysis start obtained, the session
\* start returns is in human_review_pending and its transcript holds a system
\* entry that records the reason of the escalation.
C3_EscalationPendsWithReason ==
    (Called("start_hybrid_consultation")
        /\ should_escalate_to_human(ret.ai_analysis, call.urgency)) =>
        /\ ret.stage = HUMAN_REVIEW_PENDING
        /\ Session.stage = HUMAN_REVIEW_PENDING
        /\ \E i \in 1..Len(Session.conversation_history) :
              LET e == Session.conversation_history[i]
              IN  /\ e.actor = "system"
                  /\ "reason" \in DOMAIN e
                  /\ e.reason = ret.ai_analysis.escalation_reason

C3_Witness ==
    /\ Called("start_hybrid_consultation")
    /\ ret.needs_human_review
    /\ Len(Session.conversation_history) = 1

\* the differentials of the policy's input whose probability is above 0.20
PolicyHighDiffs ==
    {i \in 1..Len(call.ai_analysis.differential_diagnoses) :
        LET d == call.ai_analysis.differential_diagnoses[i]
        IN  "probability" \in DOMAIN d /\ d.probability > 2000}

\* C4: should_escalate is true exactly when the confidence is below 0.70, or
\* the urgency is high or emergency, or there is a red flag, or more than two
\* differentials have a probability above 0.20; so it is false when none of
\* the four holds and true whenever the confidence is below 0.70.
C4_EscalationPolicy ==
    "result" \in DOMAIN ret =>
        LET a == call.ai_analysis
            any == \/ a.confidence < 7000
                   \/ call.urgency \in {"high", "emergency"}
                   \/ Len(a.red_flags) > 0
                   \/ Cardinality(PolicyHighDiffs) > 2
        IN  /\ ret.result = any
            /\ (a.confidence >= 7000 /\ a.red_flags = <<>>
                  /\ call.urgency \in {"low", "medium"}
                  /\ Cardinality(PolicyHighDiffs) <= 2) => ret.result = FALSE
            /\ a.confidence < 7000 => ret.result = TRUE

\* the policy has refused an analysis that is on every threshold
C4_Witness ==
    /\ "result" \in DOMAIN ret
    /\ ret.result = FALSE
    /\ call.ai_analysis.confidence = 7000
    /\ Cardinality(PolicyHighDiffs) = 2

\* the edges of the specified state machine
SpecifiedEdges ==
    {<<AI_ANALYZING, HUMAN_REVIEW_PENDING>>,
     <<HUMAN_REVIEW_PENDING, HUMAN_REVIEWING>>,
     <<HUMAN_REVIEWING, CONSENSUS_REACHED>>,
     <<HUMAN_REVIEWING, DISAGREEMENT>>,
     <<CONSENSUS_REACHED, COMPLETED>>,
     <<DISAGREEMENT, COMPLETED>>,
     <<AI_ANALYZING, COMPLETED>>,
     <<COMPLETED, HUMAN_REVIEW_PENDING>>}

\* C5: every change of a session's stage is an edge of the specified state
\* machine: each value the stage takes during a call follows the one before
\* it along an edge, or is the same.
C5_OnlySpecifiedEdges ==
    \A i \in 1..(Len(stage_trace) - 1) :
        stage_trace[i] # stage_trace[i + 1] =>
            <<stage_trace[i], stage_trace[i + 1]>> \in SpecifiedEdges

\* the session a call is about to be made on, and what the call leaves of it
Before == hybrid_sessions[call'.session_id]
After == hybrid_sessions'[call'.session_id]
Known == call'.session_id \in DOMAIN hybrid_sessions

\* C6: submit_human_review on a session in stage completed is rejected with an
\* error and leaves its stage, human_review and final_recommendation as they
\* were.
C6_CompletedRejectsReview ==
    [][(call'.op = "submit_human_review" /\ Known /\ Before.stage = COMPLETED) =>
          /\ "error" \in DOMAIN ret'
          /\ After.stage = Before.stage
          /\ After.human_review = Before.human_review
          /\ After.final_recommendation = Before.final_recommendation]_vars

\* C7: submit_human_review, add_collaboration_message, request_human_escalation
\* and get_status, called with a session_id that is not in the store, return
\* the not-found error and leave the store as it was.
C7_UnknownSessionNotFound ==
    [][(call'.op \in {"submit_human_review", "add_collaboration_message",
                      "request_human_escalation", "get_hybrid_consultation_status"}
            /\ ~Known) =>
          /\ "error" \in DOMAIN ret'
          /\ ret'.error = "Session not found"
          /\ hybrid_sessions' = hybrid_sessions]_vars

\* a message to a session that does not exist has been refused, while another
\* session exists
C7_Witness ==
    /\ Called("add_collaboration_message")
    /\ Failed
    /\ call.session_id \notin DOMAIN hybrid_sessions
    /\ hybrid_sessions # EmptyStore

\* the entries a call has appended to the transcript of its session
Appended ==
    SubSeq(After.conversation_history,
           Len(Before.conversation_history) + 1,
           Len(After.conversation_history))
KeepsTranscript ==
    /\ Len(After.conversation_history) >= Len(Before.conversation_history)
    /\ SubSeq(After.conversation_history, 1, Len(Before.conversation_history))
          = Before.conversation_history

\* C8: a patient's message to a session in human_review_pending appends two
\* entries, the patient's message and then an AI quick response; to a session
\* in consensus_reached it appends the message alone and returns no AI response.
C8_PatientMessageEntries ==
    [][(call'.op = "add_collaboration_message" /\ Known
            /\ ret'.message_added.actor = "patient") =>
          /\ KeepsTranscript
          /\ Before.stage = HUMAN_REVIEW_PENDING =>
                /\ Len(Appended) = 2
                /\ Appended[1] = ret'.message_added
                /\ Appended[2].actor = "ai_agent"
                /\ Appended[2].type = "quick_response"
                /\ ret'.ai_response = Some(Appended[2].message)
          /\ Before.stage = CONSENSUS_REACHED =>
                /\ Appended = <<ret'.message_added>>
                /\ ret'.ai_response = None]_vars

\* a patient has been answered by the AI
C8_Witness ==
    /\ Called("add_collaboration_message") /\ ~Failed
    /\ ret.message_added.actor = "patient"
    /\ Session.stage = HUMAN_REVIEW_PENDING
    /\ ret.ai_response # None
    /\ Len(Session.conversation_history) = 3

\* C9: request_human_escalation moves a completed session to
\* human_review_pending and leaves every other stage as it was; in both cases
\* it appends one system entry to the transcript.
C9_EscalationReopens ==
    [][(call'.op = "request_human_escalation" /\ Known) =>
          /\ After.stage =
                IF Before.stage = COMPLETED THEN HUMAN_REVIEW_PENDING
                ELSE Before.stage
          /\ KeepsTranscript
          /\ Len(Appended) = 1
          /\ Appended[1].actor = "system"]_vars

\* a completed session has been reopened
C9_Witness ==
    /\ Called("request_human_escalation") /\ ~Failed
    /\ stage_trace[1] = COMPLETED
    /\ Session.stage = HUMAN_REVIEW_PENDING

\* the values one call on `session` can leave of it
AfterOneCall(session) ==
    LET id == session.session_id
        store == Put(EmptyStore, id, session)
    IN  {submit_human_review(store, id, DoctorId, DoctorName, r).store[id] :
            r \in Reviews}
        \cup {add_collaboration_message(store, id, a, m, None).store[id] :
                a \in Actors, m \in Messages}
        \cup {request_human_escalation(store, id, r, None).store[id] :
                r \in Reasons}
        \cup {get_hybrid_consultation_status(store, id).store[id]}

\* a session without its transcript, which no call reads
Forget(session) == [session EXCEPT !.conversation_history = <<>>]

RECURSIVE Closure(_)
\* the sessions, transcripts apart, that sequences of calls reach from S
Closure(S) ==
    LET T == S \cup {Forget(x) : x \in UNION {AfterOneCall(s) : s \in S}}
    IN  IF T = S THEN S ELSE Closure(T)

ReachableStages(session) == {x.stage : x \in Closure({Forget(session)})}

\* C10: from consensus_reached and from disagreement some sequence of calls on
\* the session takes it to completed.
C10_ReviewedCanComplete ==
    \A id \in DOMAIN hybrid_sessions :
        hybrid_sessions[id].stage \in {CONSENSUS_REACHED, DISAGREEMENT} =>
            COMPLETED \in ReachableStages(hybrid_sessions[id])

\* the AI confidence a of the session a review is submitted to, the human
\* confidence h of the review, and the confidence of the recommendation the
\* call stores
AiConfidence == The(Before.ai_analysis).confidence
HumanConfidence == call'.confidence
Recommended == The(After.final_recommendation).confidence
Reviewing == call'.op = "submit_human_review" /\ Known

\* C11 as stated: after submit_human_review with AI confidence a and human
\* confidence h, confidence_scores.hybrid is 0.4*a + 0.6*h and the confidence of
\* the stored recommendation is 0.3*a + 0.7*h.
C11_BlendsExact ==
    [][Reviewing =>
          /\ After.confidence_scores.hybrid * 10
                = 4 * AiConfidence + 6 * HumanConfidence
          /\ Recommended * 10 = 3 * AiConfidence + 7 * HumanConfidence]_vars

\* C11: after submit_human_review with AI confidence a and human confidence
\* h, confidence_scores.hybrid is 0.4*a + 0.6*h, with a the stored
\* confidence_scores.ai, and the confidence of the stored recommendation is
\* 0.3*a + 0.7*h rounded to two decimals: a whole number of hundredths that is
\* at most half a hundredth away from the blend.
C11_BlendsRounded ==
    [][Reviewing =>
          /\ Before.confidence_scores.ai = AiConfidence
          /\ After.confidence_scores.human = HumanConfidence
          /\ After.confidence_scores.hybrid * 10
                = 4 * AiConfidence + 6 * HumanConfidence
          /\ Recommended % 100 = 0
          /\ Recommended * 10 - (3 * AiConfidence + 7 * HumanConfidence)
                \in -500..500]_vars

\* a review has been stored whose recommendation confidence is not the blend
\* itself: 0.78 and 0.90 blend to 0.864, stored as 0.86
C11_Witness ==
    /\ Called("submit_human_review")
    /\ ~Failed
    /\ call.confidence = 9000
    /\ Session.confidence_scores.hybrid = 8520
    /\ The(Session.final_recommendation).confidence = 8600

\* C15: in every state the ai, human and hybrid confidence scores of every
\* session lie in [0, 1], whatever review submit_human_review has accepted.
C15_ScoresInUnitInterval ==
    \A id \in DOMAIN hybrid_sessions :
        \A k \in {"ai", "human", "hybrid"} :
            hybrid_sessions[id].confidence_scores[k] \in 0..10000

\* two characters that are the same letter in either case, or the same character
SameLetter(c, d) ==
    \/ c = d
    \/ \E i \in 1..26 : {c, d} = {UpperCase[i], LowerCase[i]}

\* a occurs in b when letter case is ignored
CaselessIn(a, b) ==
    \E k \in 0..(Len(b) - Len(a)) :
        \A i \in 1..Len(a) : SameLetter(a[i], b[k + i])

\* the two diagnoses of a consensus check, empty when the key is missing
AiDiagnosis ==
    IF "primary_diagnosis" \in DOMAIN call.ai_analysis
    THEN call.ai_analysis.primary_diagnosis ELSE <<>>
HumanDiagnosis ==
    IF "diagnosis" \in DOMAIN call.human_review
    THEN call.human_review.diagnosis ELSE <<>>

\* C12: the consensus check is true exactly when one of the two diagnoses
\* occurs in the other with letter case ignored; so the result is the same for
\* every way of writing the letters of either diagnosis in upper or lower case.
C12_CaselessContainment ==
    "result" \in DOMAIN ret =>
        ret.result = (CaselessIn(AiDiagnosis, HumanDiagnosis)
                        \/ CaselessIn(HumanDiagnosis, AiDiagnosis))

\* "Migraine" against "migraine with aura" has been found to be consensus
C12_Witness ==
    /\ "result" \in DOMAIN ret
    /\ AiDiagnosis = Migraine
    /\ HumanDiagnosis = migraine_with_aura
    /\ ret.result

\* C14: every start_hybrid_consultation call returns a session_id that no
\* earlier call has returned, also when it reads the clock value an earlier
\* call has read, and so never replaces a session that is in the store.
C14_StartNeverReplaces ==
    [][call'.op = "start_hybrid_consultation" =>
          /\ ret'.session_id \notin DOMAIN hybrid_sessions
          /\ \A id \in DOMAIN hybrid_sessions :
                hybrid_sessions'[id] = hybrid_sessions[id]]_vars

\* C13: the transcript of every session is append-only: whatever the call
\* (start, review, message, escalation request, status), the transcript that a
\* session of the store had before the call is a prefix of the transcript it
\* has after it.
C13_TranscriptsAppendOnly ==
    [][\A id \in DOMAIN hybrid_sessions :
          /\ id \in DOMAIN hybrid_sessions'
          /\ Len(hybrid_sessions'[id].conversation_history)
                >= Len(hybrid_sessions[id].conversation_history)
          /\ SubSeq(hybrid_sessions'[id].conversation_history, 1,
                    Len(hybrid_sessions[id].conversation_history))
                = hybrid_sessions[id].conversation_history]_vars

\* C17: a call addressed to one session leaves every other session of the
\* store as it was, in every field.
C17_OtherSessionsUntouched ==
    [][\A id \in DOMAIN hybrid_sessions :
          id # call'.session_id =>
              /\ id \in DOMAIN hybrid_sessions'
              /\ hybrid_sessions'[id] = hybrid_sessions[id]]_vars

\* a review has been stored in one session while the store holds another
C17_Witness ==
    /\ Called("submit_human_review")
    /\ ~Failed
    /\ \E id \in DOMAIN hybrid_sessions : id # call.session_id

ModelFailed(agent_type) ==
    \E i \in 1..Len(run.events) :
        /\ run.events[i].call = "model"
        /\ run.events[i].agent = agent_type
        /\ run.events[i].failed

\* an assessment that _run_agent has returned, marked as an error or not
Errored(assessment) == "error" \in DOMAIN assessment /\ assessment.error
Produced(assessment) == "assessment" \in DOMAIN assessment

\* C19: a model call that throws never ends the run: once the model call of a
\* specialist has thrown no exception leaves the run, and the run goes on
\* until it returns; when an exception has left a run, the last call made was
\* a tool call.  In every result the run returns, triage, every selected
\* specialist, the financial assessment and the coordinator synthesis have been
\* produced, and a specialist's entry is marked error=true exactly when its
\* model call has thrown.
C19_SpecialistFailureContained ==
    /\ (\E specialty \in Specialists : ModelFailed(specialty)) =>
          /\ run.phase # "raised"
          /\ run.phase # "returned" => ENABLED DiagnosisNext
    /\ run.phase = "raised" =>
          run.events[Len(run.events)].call = "tool"
    /\ run.phase = "returned" =>
          LET result == The(run.result)
              consulted == result.specialist_consultations
          IN  /\ Produced(result.triage_assessment)
              /\ Produced(result.financial_analysis)
              /\ Produced(result.final_diagnosis)
              /\ [i \in 1..Len(consulted) |-> consulted[i].specialty]
                    = Consulted(run.recommended_specialties)
              /\ \A i \in 1..Len(consulted) :
                    /\ Produced(consulted[i].result)
                    /\ Errored(consulted[i].result)
                          <=> ModelFailed(consulted[i].specialty)

\* a run has returned in which the model call of one specialist has thrown and
\* that of another has not
C19_Witness ==
    /\ run.phase = "returned"
    /\ \E i, j \in 1..Len(The(run.result).specialist_consultations) :
          /\ Errored(The(run.result).specialist_consultations[i].result)
          /\ ~Errored(The(run.result).specialist_consultations[j].result)
    /\ ~Errored(The(run.result).final_diagnosis)

\* C20: a tool call that fails does not end the invocation it is part of: no
\* exception leaves the run, and the call that follows the failed one is made
\* by the same agent, its next tool call or its model call.
C20_ToolFailureContained ==
    \A i \in 1..Len(run.events) :
        (run.events[i].call = "tool" /\ run.events[i].failed) =>
            /\ run.phase # "raised"
            /\ Running => run.agent.agent_type = run.events[i].agent
            /\ i < Len(run.events) =>
                  run.events[i + 1].agent = run.events[i].agent

\* what a call leaves of the store when it runs alone
ApplyCall(store, c) ==
    IF c.op = "submit_human_review"
    THEN submit_human_review(store, c.session_id, DoctorId, DoctorName, c.review).store
    ELSE IF c.op = "add_collaboration_message"
    THEN add_collaboration_message(store, c.session_id, c.actor, c.message, None).store
    ELSE request_human_escalation(store, c.session_id, c.reason, None).store

RECURSIVE Serial(_, _, _, _)
\* the store after the calls have run one after another, from the i-th of the order on
Serial(store, calls, order, i) ==
    IF i > Len(calls) THEN store
    ELSE Serial(ApplyCall(store, calls[order[i]]), calls, order, i + 1)

Orders(n) == {f \in [1..n -> 1..n] : \A i, j \in 1..n : f[i] = f[j] => i = j}

\* some serial execution of the calls that have arrived leaves this store
Serializable(store, t) ==
    \E order \in Orders(Len(t.log)) : store = Serial(t.base, t.log, order, 1)

\* no task is waiting to run or to be resumed
IdleLoop(t) == DOMAIN t.frames = {}
Idle == IdleLoop(tasks)

IsQuickResponse(entry) == "type" \in DOMAIN entry /\ entry.type = "quick_response"

\* every AI quick response of a transcript comes right after a patient's message
QuickFollowsPatient(session) ==
    \A i \in 1..Len(session.conversation_history) :
        IsQuickResponse(session.conversation_history[i]) =>
            /\ i > 1
            /\ session.conversation_history[i - 1].actor = "patient"
            /\ ~IsQuickResponse(session.conversation_history[i - 1])

\* C16: calls on one session that are in flight together leave the store, its
\* stage and transcript included, as some serial execution of the same calls
\* leaves it; every AI quick response stands right after the patient's message
\* it answers, and it is appended only while the stage is human_review_pending.
C16_CallsSerialized ==
    [][/\ IdleLoop(tasks') => Serializable(hybrid_sessions', tasks')
       /\ \A id \in DOMAIN hybrid_sessions :
            /\ QuickFollowsPatient(hybrid_sessions'[id])
            /\ \A i \in (Len(hybrid_sessions[id].conversation_history) + 1)
                            ..Len(hybrid_sessions'[id].conversation_history) :
                  IsQuickResponse(hybrid_sessions'[id].conversation_history[i]) =>
                      /\ hybrid_sessions[id].stage = HUMAN_REVIEW_PENDING
                      /\ hybrid_sessions'[id].stage = HUMAN_REVIEW_PENDING]_vars

\* a review and a patient's message were in flight together and the message,
\* which arrived second, has run first: it has been answered by the AI, and the
\* store is not what the calls in their order of arrival leave
C16_Witness ==
    /\ Idle
    /\ Len(tasks.log) >= 2
    /\ tasks.log[1].op = "submit_human_review"
    /\ tasks.log[2].op = "add_collaboration_message"
    /\ hybrid_sessions #
          Serial(tasks.base, tasks.log, [i \in 1..Len(tasks.log) |-> i], 1)
    /\ \E id \in DOMAIN hybrid_sessions :
          \E i \in 1..Len(hybrid_sessions[id].conversation_history) :
              IsQuickResponse(hybrid_sessions[id].conversation_history[i])

\* the phase of multi_agent_diagnosis an agent belongs to
PhaseOf(agent_type) ==
    IF agent_type = "triage" THEN 1
    ELSE IF agent_type \in Specialists THEN 2
    ELSE IF agent_type = "financial" THEN 3
    ELSE 4

\* the agent has been invoked: it has made a call, or it is the one running
Invoked(agent_type) ==
    \/ \E i \in 1..Len(run.events) : run.events[i].agent = agent_type
    \/ Running /\ run.agent.agent_type = agent_type

\* the specialties whose result the run has collected
Collected == {run.specialist_results[i].specialty : i \in 1..Len(run.specialist_results)}

\* the specialties the triage narrative selects, once triage has returned
Selected ==
    LET chosen == extract_specialties(The(run.triage_result))
    IN  {chosen[i] : i \in 1..Len(chosen)}

\* C21: the phases run in the order triage, specialists, financial, coordinator:
\* the calls of a later phase all come after those of an earlier one, no
\* specialist is invoked before triage has returned, the financial agent is
\* invoked only when the result of every selected specialist has been
\* collected, and the coordinator only when the financial result is there.
C21_PhasesInOrder ==
    /\ \A i, j \in 1..Len(run.events) :
          i < j => PhaseOf(run.events[i].agent) <= PhaseOf(run.events[j].agent)
    /\ \A specialty \in Specialists :
          Invoked(specialty) => ~IsNone(run.triage_result)
    /\ Invoked("financial") =>
          /\ ~IsNone(run.triage_result)
          /\ Collected = Selected
    /\ Invoked("coordinator") =>
          /\ Invoked("financial")
          /\ ~IsNone(run.financial_result)

\* the coordinator is running after three specialists and the financial agent,
\* which has made a tool call, have returned
C21_Witness ==
    /\ run.phase = "coordinator"
    /\ Cardinality(Collected) = 3
    /\ \E i \in 1..Len(run.events) :
          run.events[i].agent = "financial" /\ run.events[i].call = "tool"

AgentTypes == Specialists \cup {"triage", "financial", "coordinator"}

\* the calls of one kind an agent has made, by their place in the log
CallsOf(agent_type, kind) ==
    {i \in 1..Len(run.events) :
        run.events[i].agent = agent_type /\ run.events[i].call = kind}

\* the invocation of the agent is over: its result is kept, or an exception
\* has left it
Finished(agent_type) ==
    \/ agent_type = "triage" /\ ~IsNone(run.triage_result)
    \/ agent_type \in Collected
    \/ agent_type = "financial" /\ ~IsNone(run.financial_result)
    \/ agent_type = "coordinator" /\ ~IsNone(run.final_diagnosis)
    \/ /\ run.phase = "raised"
       /\ run.events[Len(run.events)].agent = agent_type

\* the tool calls the run asks of the agent
Requested(agent_type) ==
    IF agent_type = "triage"
    THEN Pending(TriageTools(run.symptom_description, run.user_id))
    ELSE IF agent_type \in Specialists
    THEN Pending(SpecialistTools(run.symptom_description, agent_type))
    ELSE IF agent_type = "financial"
    THEN Pending(FinancialTools(extract_conditions_and_treatments(run.specialist_results)))
    ELSE <<>>

\* C22: every invocation of an agent makes exactly one model call, after every
\* tool call that was requested of it has been executed; the coordinator makes
\* no tool call.
C22_OneModelCallAfterTools ==
    /\ CallsOf("coordinator", "tool") = {}
    /\ \A agent_type \in AgentTypes :
          Finished(agent_type) =>
              /\ Cardinality(CallsOf(agent_type, "model")) = 1
              /\ Cardinality(CallsOf(agent_type, "tool")) = Len(Requested(agent_type))
              /\ \A t \in CallsOf(agent_type, "tool"), m \in CallsOf(agent_type, "model") :
                    t < m

\* the tools the triage agent has called
TriageToolsCalled ==
    {run.events[i].tool : i \in CallsOf("triage", "tool")}

\* C23: once the triage phase is over, the triage agent has called
\* search_symptoms, and it has called get_patient_timeline exactly when the
\* user is not the anonymous one.
C23_TriageTools ==
    Finished("triage") =>
        /\ "search_symptoms" \in TriageToolsCalled
        /\ "get_patient_timeline" \in TriageToolsCalled <=> run.user_id # "anonymous"

\* C24: in every result the run returns, the keys of specialist_consultations
\* are among cardiology, neurology and gastroenterology, and the financial
\* analysis and the final diagnosis are there, each the assessment of its own
\* agent and marked as an error exactly when that agent's model call has thrown.
C24_ResultShape ==
    run.phase = "returned" =>
        LET result == The(run.result)
            consulted == result.specialist_consultations
        IN  /\ \A i \in 1..Len(consulted) : consulted[i].specialty \in Specialists
            /\ \A i, j \in 1..Len(consulted) :
                  consulted[i].specialty = consulted[j].specialty => i = j
            /\ Produced(result.financial_analysis)
            /\ result.financial_analysis.agent = "financial"
            /\ Errored(result.financial_analysis) <=> ModelFailed("financial")
            /\ Produced(result.final_diagnosis)
            /\ result.final_diagnosis.agent = "coordinator"
            /\ Errored(result.final_diagnosis) <=> ModelFailed("coordinator")

\* a run has returned in which the model calls of a specialist and of the
\* financial agent have thrown
C24_Witness ==
    /\ run.phase = "returned"
    /\ Errored(The(run.result).financial_analysis)
    /\ ~Errored(The(run.result).final_diagnosis)
    /\ \E i \in 1..Len(The(run.result).specialist_consultations) :
          Errored(The(run.result).specialist_consultations[i].result)

\* the keywords of each specialty
Keywords ==
    [cardiology |-> {kw_heart, kw_cardiac, kw_chest},
     neurology |-> {kw_head, kw_neuro, kw_brain, kw_migraine},
     gastroenterology |-> {kw_stomach, kw_abdominal, kw_digest, kw_gerd}]

\* the specialties that have a keyword in the text, in any letter case
Matching(text) ==
    {specialty \in Specialists :
        \E word \in Keywords[specialty] : CaselessIn(word, text)}

TriageNarrative == The(run.triage_result).assessment

\* C25: the specialists consulted are those with a keyword in the triage
\* narrative, in any letter case, or cardiology and neurology when the
\* narrative has no keyword: no other specialist is invoked and, when the
\* specialist phase is over, each of them has been consulted; a narrative with
\* "chest" selects cardiology.
C25_SpecialistsByKeyword ==
    ~IsNone(run.triage_result) =>
        \A expected \in {IF Matching(TriageNarrative) = {}
                          THEN {"cardiology", "neurology"}
                          ELSE Matching(TriageNarrative)} :
            /\ \A specialty \in Specialists : Invoked(specialty) => specialty \in expected
            /\ Collected \subseteq expected
            /\ run.phase \in {"financial", "coordinator", "returned"} =>
                  Collected = expected
            /\ (CaselessIn(kw_chest, TriageNarrative) /\ Collected # {}) =>
                  "cardiology" \in Collected

\* cardiology alone has been consulted for a narrative that has "Chest" and
\* not "heart"
C25_Witness ==
    /\ run.phase = "returned"
    /\ TriageNarrative = ChestPain
    /\ ~CaselessIn(kw_heart, TriageNarrative)
    /\ Collected = {"cardiology"}

\* C26: when the narrative of a consulted specialist contains "gerd", in any
\* letter case, the conditions extracted for the financial phase contain GERD
\* with its treatment.
C26_GerdExtracted ==
    (/\ run.phase \in {"financial", "coordinator", "returned"}
     /\ \E i \in 1..Len(run.specialist_results) :
           CaselessIn(kw_gerd, run.specialist_results[i].result.assessment)) =>
        LET conditions ==
                extract_conditions_and_treatments(run.specialist_results).conditions
        IN  \E k \in 1..Len(conditions) :
                conditions[k] = [condition |-> "GERD",
                                 treatment |-> "Proton pump inhibitors"]

\* the assessment is the fallback of the agent, marked as such
Fallback(agent_type, assessment) ==
    /\ assessment.agent = agent_type
    /\ "mock" \in DOMAIN assessment /\ assessment.mock
    /\ assessment.assessment = MockPrefix \o AgentText[agent_type] \o MockSuffix

\* C27: without a model client no exception leaves the run and the run goes on
\* until it returns; every assessment an agent has returned is the fallback of
\* that agent, marked as such, and the result returned holds that of triage, of
\* every selected specialist, of the financial agent and of the coordinator.
C27_FallbackWithoutClient ==
    ~run.client =>
        /\ run.phase # "raised"
        /\ run.phase # "returned" => ENABLED DiagnosisNext
        /\ ~IsNone(run.triage_result) => Fallback("triage", The(run.triage_result))
        /\ \A i \in 1..Len(run.specialist_results) :
              Fallback(run.specialist_results[i].specialty,
                       run.specialist_results[i].result)
        /\ ~IsNone(run.financial_result) =>
              Fallback("financial", The(run.financial_result))
        /\ run.phase = "returned" =>
              LET result == The(run.result)
              IN  /\ Fallback("triage", result.triage_assessment)
                  /\ Fallback("financial", result.financial_analysis)
                  /\ Fallback("coordinator", result.final_diagnosis)
                  /\ result.specialist_consultations = run.specialist_results
                  /\ Collected = Selected

\* a run without a client has returned, two specialists consulted
C27_Witness ==
    /\ ~run.client
    /\ run.phase = "returned"
    /\ Cardinality(Collected) = 2
    /\ Len(run.events) = 5

\* C28: every session of the store has its ai_analysis and is past
\* ai_analyzing whenever the event loop can run another task: no review, message
\* or escalation finds a session whose analysis is absent, start requests in
\* flight or not.
C28_StoredSessionsAnalysed ==
    \A id \in DOMAIN hybrid_sessions :
        /\ ~IsNone(hybrid_sessions[id].ai_analysis)
        /\ hybrid_sessions[id].stage # AI_ANALYZING

\* a start has run and its session is stored, while a review of that session
\* and a second start are in flight
C28_Witness ==
    /\ Cardinality(DOMAIN hybrid_sessions) = 1
    /\ \E j, k \in DOMAIN tasks.frames :
          /\ tasks.frames[j].call.op = "submit_human_review"
          /\ tasks.frames[k].call.op = "start_hybrid_consultation"

Settled == {CONSENSUS_REACHED, DISAGREEMENT}

\* C29: a session that holds a human review is in consensus_reached or
\* disagreement after every call; a review, message, escalation request or
\* status request leaves a reviewed session reviewed, and the stage of the
\* session it is made on is never human_review_pending, completed or
\* ai_analyzing during the call.
C29_ReviewedStaysReviewed ==
    [][/\ \A id \in DOMAIN hybrid_sessions' :
             ~IsNone(hybrid_sessions'[id].human_review) =>
                 hybrid_sessions'[id].stage \in Settled
       /\ call'.op # "start_hybrid_consultation" =>
             /\ \A id \in DOMAIN hybrid_sessions :
                   ~IsNone(hybrid_sessions[id].human_review) =>
                       /\ id \in DOMAIN hybrid_sessions'
                       /\ ~IsNone(hybrid_sessions'[id].human_review)
                       /\ hybrid_sessions'[id].stage \in Settled
             /\ (Known /\ ~IsNone(Before.human_review)) =>
                   \A i \in 1..Len(stage_trace') :
                       stage_trace'[i] \in Settled \cup {HUMAN_REVIEWING}]_vars

\* an escalation has been requested for a session whose review disagreed with
\* the AI, and the session is still in disagreement
C29_Witness ==
    /\ Called("request_human_escalation") /\ ~Failed
    /\ ~IsNone(Session.human_review)
    /\ stage_trace[1] = DISAGREEMENT
    /\ Session.stage = DISAGREEMENT

\* C30: add_collaboration_message and get_status, made on a stored session by
\* any actor in any stage, leave its stage, ai_analysis, human_review,
\* final_recommendation and confidence_scores as they were; the message changes
\* nothing but conversation_history and the status request changes nothing.
C30_MessageAndStatusFrame ==
    [][(call'.op \in {"add_collaboration_message", "get_hybrid_consultation_status"}
            /\ Known) =>
          /\ After.stage = Before.stage
          /\ \A i \in 1..Len(stage_trace') : stage_trace'[i] = Before.stage
          /\ After.ai_analysis = Before.ai_analysis
          /\ After.human_review = Before.human_review
          /\ After.final_recommendation = Before.final_recommendation
          /\ After.confidence_scores = Before.confidence_scores
          /\ [After EXCEPT !.conversation_history = Before.conversation_history]
                = Before
          /\ DOMAIN hybrid_sessions' = DOMAIN hybrid_sessions
          /\ call'.op = "get_hybrid_consultation_status" =>
                hybrid_sessions' = hybrid_sessions]_vars

\* the doctor has sent a message to a pending session, which is still pending
C30_Witness ==
    /\ Called("add_collaboration_message") /\ ~Failed
    /\ ret.message_added.actor = "human_doctor"
    /\ Session.stage = HUMAN_REVIEW_PENDING
    /\ IsNone(Session.human_review)
    /\ Len(Session.conversation_history) = 2

====
